---- MODULE Spec2Model ----
(***************************************************************************)
(* A model of the GoTracing rendering core:                                *)
(*   - the shape intersection routines and the scene's nearest-hit query   *)
(*     (package geometry, package scene),                                  *)
(*   - the recursive tracer Raytracer.traceRay,                            *)
(*   - the concurrent per-pixel renderer Raytracer.Render.                 *)
(*                                                                         *)
(* float64 values are modelled exactly where the arithmetic is rational:   *)
(* a number is a record [n, d] standing for n/d, with d = 0 standing for   *)
(* the IEEE non-finite values (+Inf = 1/0, -Inf = -1/0, NaN = 0/0).        *)
(***************************************************************************)
EXTENDS Integers, Naturals, Sequences, FiniteSets, TLC

\* ------------------------------------------------------------------------
\* float64 as exact rationals with IEEE non-finite values
\* ------------------------------------------------------------------------

Sign(i) == IF i > 0 THEN 1 ELSE IF i < 0 THEN -1 ELSE 0

\* n/d with the sign carried by the numerator; x/0 is +Inf, -Inf or NaN.
Rat(n, d) ==
  IF d = 0 THEN [n |-> Sign(n), d |-> 0]
  ELSE IF d < 0 THEN [n |-> -n, d |-> -d]
  ELSE [n |-> n, d |-> d]

FromInt(i) == [n |-> i, d |-> 1]
PosInf == [n |-> 1, d |-> 0]
IsNaN(a) == a.d = 0 /\ a.n = 0
IsFinite(a) == a.d # 0

\* a < b as float64 compares: false whenever either side is NaN.
RLt(a, b) ==
  /\ ~IsNaN(a)
  /\ ~IsNaN(b)
  /\ IF a.d = 0 /\ b.d = 0 THEN a.n < b.n ELSE a.n * b.d < b.n * a.d

RGt(a, b) == RLt(b, a)
RGe(a, b) == ~IsNaN(a) /\ ~IsNaN(b) /\ ~RLt(a, b)

\* a / b for finite a and b (b may be zero).
RDiv(a, b) == Rat(a.n * b.d, a.d * b.n)
RAdd(a, b) == Rat(a.n * b.d + b.n * a.d, a.d * b.d)
RAbs(a) == [n |-> IF a.n < 0 THEN -a.n ELSE a.n, d |-> a.d]

\* The decimal places kept of an irrational square root.
SqrtScale == 100

RECURSIVE ISqrtBetween(_, _, _)
\* The largest r in lo..hi with r*r <= x (lo*lo <= x < (hi+1)*(hi+1)).
ISqrtBetween(x, lo, hi) ==
  IF lo >= hi THEN lo
  ELSE LET mid == (lo + hi + 1) \div 2
       IN IF mid * mid <= x THEN ISqrtBetween(x, mid, hi)
          ELSE ISqrtBetween(x, lo, mid - 1)

\* math.Sqrt of a non-negative integer: exact for a perfect square, rounded
\* down to 1/SqrtScale otherwise.
Sqrt(x) == Rat(ISqrtBetween(x * SqrtScale * SqrtScale, 0, (x + 1) * SqrtScale), SqrtScale)

\* The epsilon 0.0001 of the intersection routines.
Epsilon == Rat(1, 10000)

\* ------------------------------------------------------------------------
\* package geometry: vectors with integer components
\* ------------------------------------------------------------------------

Subtract(v, w) == <<v[1] - w[1], v[2] - w[2], v[3] - w[3]>>
Dot(v, w) == v[1] * w[1] + v[2] * w[2] + v[3] * w[3]
Cross(v, w) ==
  << v[2] * w[3] - v[3] * w[2],
     v[3] * w[1] - v[1] * w[3],
     v[1] * w[2] - v[2] * w[1] >>

\* "No intersection": the nil *Hit.
NoHit == [none |-> TRUE]

\* A Hit carries the ray parameter T and the shape that produced it. Position
\* and Normal are not stored: T determines Position (Ray.At), and no property
\* checked on the concrete shapes reads the normal.
Hit(t, shape) == [T |-> t, Object |-> shape]

SphereIntersect(s, ray) ==
  LET oc == Subtract(ray.Origin, s.Center)
      a == Dot(ray.Direction, ray.Direction)
      b == 2 * Dot(oc, ray.Direction)
      c == Dot(oc, oc) - s.Radius * s.Radius
      discriminant == b * b - 4 * a * c
  IN IF discriminant < 0 THEN NoHit
     ELSE LET root == Sqrt(discriminant)
              t == RDiv(Rat(-b * root.d - root.n, root.d), FromInt(2 * a))
          IN Hit(t, s)

PlaneIntersect(p, ray) ==
  LET denom == Dot(p.Normal, ray.Direction)
  IN IF RGt(RAbs(FromInt(denom)), Epsilon)
     THEN LET t == Rat(Dot(Subtract(p.Point, ray.Origin), p.Normal), denom)
          IN IF RGe(t, FromInt(0)) THEN Hit(t, p) ELSE NoHit
     ELSE NoHit

TriangleIntersect(tri, ray) ==
  LET edge1 == Subtract(tri.V1, tri.V0)
      edge2 == Subtract(tri.V2, tri.V0)
      h == Cross(ray.Direction, edge2)
      a == Dot(edge1, h)
  IN IF RLt(RAbs(FromInt(a)), Epsilon) THEN NoHit
     ELSE LET s == Subtract(ray.Origin, tri.V0)
              u == Rat(Dot(s, h), a)
          IN IF RLt(u, FromInt(0)) \/ RGt(u, FromInt(1)) THEN NoHit
             ELSE LET q == Cross(s, edge1)
                      v == Rat(Dot(ray.Direction, q), a)
                  IN IF RLt(v, FromInt(0)) \/ RGt(RAdd(u, v), FromInt(1)) THEN NoHit
                     ELSE LET tt == Rat(Dot(edge2, q), a)
                          IN IF RGt(tt, Epsilon) THEN Hit(tt, tri) ELSE NoHit

CylinderIntersect(c, ray) ==
  LET oc0 == Subtract(ray.Origin, c.Center)
      oc == <<oc0[1], 0, oc0[3]>>
      a == ray.Direction[1] * ray.Direction[1] + ray.Direction[3] * ray.Direction[3]
      b == 2 * Dot(oc, ray.Direction)
      cval == Dot(oc, oc) - c.Radius * c.Radius
      discriminant == b * b - 4 * a * cval
  IN IF discriminant < 0 THEN NoHit
     ELSE LET root == Sqrt(discriminant)
              t == RDiv(Rat(-b * root.d - root.n, root.d), FromInt(2 * a))
          IN Hit(t, c)

\* One axis of the slab test: (min - origin)/direction and (max - origin)/direction,
\* swapped when out of order. min and max are Center -+ Length/2.
Slab(cube, ray, k) ==
  LET lo == RDiv(Rat(2 * cube.Center[k] - cube.Length - 2 * ray.Origin[k], 2),
                 FromInt(ray.Direction[k]))
      hi == RDiv(Rat(2 * cube.Center[k] + cube.Length - 2 * ray.Origin[k], 2),
                 FromInt(ray.Direction[k]))
  IN IF RGt(lo, hi) THEN [min |-> hi, max |-> lo] ELSE [min |-> lo, max |-> hi]

CubeIntersect(cube, ray) ==
  LET x == Slab(cube, ray, 1)
      y == Slab(cube, ray, 2)
  IN IF RGt(x.min, y.max) \/ RGt(y.min, x.max) THEN NoHit
     ELSE LET tmin1 == IF RGt(y.min, x.min) THEN y.min ELSE x.min
              tmax1 == IF RLt(y.max, x.max) THEN y.max ELSE x.max
              z == Slab(cube, ray, 3)
          IN IF RGt(tmin1, z.max) \/ RGt(z.min, tmax1) THEN NoHit
             ELSE LET tmin == IF RGt(z.min, tmin1) THEN z.min ELSE tmin1
                      tmax == IF RLt(z.max, tmax1) THEN z.max ELSE tmax1
                  IN IF RLt(tmin, FromInt(0))
                     THEN IF RLt(tmax, FromInt(0)) THEN NoHit ELSE Hit(tmax, cube)
                     ELSE Hit(tmin, cube)

\* The Object interface's Intersect, dispatched on the shape variant.
Intersect(shape, ray) ==
  CASE shape.kind = "Sphere" -> SphereIntersect(shape, ray)
    [] shape.kind = "Plane" -> PlaneIntersect(shape, ray)
    [] shape.kind = "Triangle" -> TriangleIntersect(shape, ray)
    [] shape.kind = "Cylinder" -> CylinderIntersect(shape, ray)
    [] shape.kind = "Cube" -> CubeIntersect(shape, ray)

\* ------------------------------------------------------------------------
\* package scene: the nearest-hit query
\* ------------------------------------------------------------------------

RECURSIVE FindClosestLoop(_, _, _)
\* The range loop over s.Objects from index i on; hits[i] is what
\* object.Intersect(ray) returned for the i-th object.
FindClosestLoop(hits, i, acc) ==
  IF i > Len(hits) THEN acc
  ELSE LET hit == hits[i]
       IN IF hit # NoHit /\ RLt(hit.T, acc.closestDistance)
          THEN FindClosestLoop(hits, i + 1,
                 [closestHit |-> hit, closestObject |-> i, closestDistance |-> hit.T])
          ELSE FindClosestLoop(hits, i + 1, acc)

\* closestObject = &object takes the address of the range variable. With one
\* variable per iteration (Go 1.22 and later) it keeps designating the object
\* of the iteration that took it; with one variable per loop (earlier Go) it
\* designates whatever the variable holds when the loop ends: the last object.
\* The result names the object by its index in s.Objects, 0 for nil.
FindClosestIntersection(hits, perIteration) ==
  LET r == FindClosestLoop(hits, 1,
             [closestHit |-> NoHit, closestObject |-> 0, closestDistance |-> PosInf])
  IN [hit |-> r.closestHit,
      object |-> IF r.closestObject = 0 THEN 0
                 ELSE IF perIteration THEN r.closestObject
                 ELSE Len(hits)]

\* ------------------------------------------------------------------------
\* package material: colours and materials
\* ------------------------------------------------------------------------

\* Colour channels and material coefficients are float64 values held in
\* fixed point: the integer c stands for c/One.
One == 16

Black == <<0, 0, 0>>
ColorAdd(c1, c2) == <<c1[1] + c2[1], c1[2] + c2[2], c1[3] + c2[3]>>
ColorScale(c, s) == <<(c[1] * s) \div One, (c[2] * s) \div One, (c[3] * s) \div One>>
Min(a, b) == IF a < b THEN a ELSE b

\* Material.ComputeColor in a scene without lights: the loop over s.Lights
\* adds nothing, which leaves the ambient term, each channel capped at 1.
ComputeColor(m) ==
  LET color == ColorScale(m.Color, m.AmbientCoefficient)
  IN <<Min(One, color[1]), Min(One, color[2]), Min(One, color[3])>>

Clamp(value, min, max) == IF value < min THEN min ELSE IF value > max THEN max ELSE value

\* uint8(255.999 * Clamp(c, 0, 1)) on each channel, alpha fully opaque.
ToRGBA(color) ==
  << (255999 * Clamp(color[1], 0, One)) \div (1000 * One),
     (255999 * Clamp(color[2], 0, One)) \div (1000 * One),
     (255999 * Clamp(color[3], 0, One)) \div (1000 * One),
     255 >>

\* ------------------------------------------------------------------------
\* Scenes for the tracer. The tracer reads a scene only through
\* FindClosestIntersection, Ray.Reflect and Ray.Refract, so a scene is given
\* by what these answer for each of finitely many rays: hits[ray][i] is what
\* Objects[i].Intersect(ray) returns, and a hit names the ray that leaves it
\* by reflection (Reflected), the ray that leaves it by refraction
\* (Refracted), and Dt = Direction . Normal, in fixed point.
\* ------------------------------------------------------------------------

NumRays == 4
Rays == 1..NumRays
\* The nil *Ray.
NilRay == 0

AHit(t, reflected, refracted, dt) ==
  [T |-> FromInt(t), Reflected |-> reflected, Refracted |-> refracted, Dt |-> dt]

Matte ==
  [Color |-> <<One, One \div 2, 0>>, Reflectivity |-> 0, Transparency |-> 0,
   RefractiveIndex |-> One, AmbientCoefficient |-> One \div 2]
Mirror ==
  [Color |-> <<One \div 2, One \div 2, One>>, Reflectivity |-> One \div 2, Transparency |-> 0,
   RefractiveIndex |-> One, AmbientCoefficient |-> One \div 2]
Glass ==
  [Color |-> <<0, One, One \div 2>>, Reflectivity |-> One \div 4, Transparency |-> One \div 2,
   RefractiveIndex |-> (3 * One) \div 2, AmbientCoefficient |-> One \div 4]

\* No shapes at all.
EmptyScene ==
  [Objects |-> <<>>, hits |-> [r \in Rays |-> <<>>]]

\* Two mirrors facing each other (rays 1 and 2 bounce between them for ever)
\* and a matte shape; ray 3 meets the matte shape and the second mirror at the
\* same distance, ray 4 leaves the scene.
MirrorScene ==
  [Objects |-> <<[Material |-> Matte], [Material |-> Mirror], [Material |-> Mirror]>>,
   hits |-> [r \in Rays |->
     CASE r = 1 -> <<AHit(5, 4, 4, -One), AHit(2, 2, 2, -One), NoHit>>
       [] r = 2 -> <<NoHit, NoHit, AHit(3, 1, 1, -One)>>
       [] r = 3 -> <<AHit(4, 4, 4, -One), NoHit, AHit(4, 1, 1, -One \div 2)>>
       [] OTHER -> <<NoHit, NoHit, NoHit>>]]

\* A glass shape in front of a matte one: ray 1 enters the glass head-on and
\* continues inside as ray 2, which meets the glass surface again at a grazing
\* angle; ray 3 meets the matte shape, ray 4 leaves the scene.
GlassScene ==
  [Objects |-> <<[Material |-> Matte], [Material |-> Glass]>>,
   hits |-> [r \in Rays |->
     CASE r = 1 -> <<AHit(6, 4, 4, -One), AHit(2, 4, 2, -One)>>
       [] r = 2 -> <<NoHit, AHit(1, 3, 3, One \div 2)>>
       [] r = 3 -> <<AHit(3, 4, 4, -One), NoHit>>
       [] OTHER -> <<NoHit, NoHit>>]]

Scenes == {EmptyScene, MirrorScene, GlassScene}

\* What Objects[i].Intersect(ray) returns for each object, in slice order.
SceneHits(sc, ray) == IF ray = NilRay THEN <<>> ELSE sc.hits[ray]

\* ------------------------------------------------------------------------
\* package utility: refraction
\* ------------------------------------------------------------------------

\* utility.Refract: discriminant = 1 - ri*ri*(1 - dt*dt), here multiplied by
\* One^4 to stay in integers. A positive discriminant gives the refracted
\* direction; otherwise the result is (nil, true).
Refract(hit, refractiveIndex) ==
  LET dt == hit.Dt
      discriminant == One * One * One * One
                        - refractiveIndex * refractiveIndex * (One * One - dt * dt)
  IN IF discriminant > 0
     THEN [ray |-> hit.Refracted, totalInternalReflection |-> FALSE]
     ELSE [ray |-> NilRay, totalInternalReflection |-> TRUE]

\* ------------------------------------------------------------------------
\* State
\* ------------------------------------------------------------------------

VARIABLES
  \* the scene and the build, fixed for a run
  scene,                \* Raytracer.Scene (tracer and renderer)
  loopVarPerIteration,  \* whether the build gives a range loop one variable per iteration
  \* one traceRay call, as a call stack
  stack,                \* the frames of traceRay, the innermost last
  tStatus,              \* "idle", "running", "returned" or "panicked"
  tResult,              \* the colour the outermost call returned
  tQueries,             \* the calls of FindClosestIntersection made so far
  tDepth0,              \* the depth the outermost call was given
  \* one Intersect / FindClosestIntersection call on concrete shapes
  gRay, gObjects, gHits, gClosest, gPC,
  \* one process calling Render, then Render again from the same seed
  Width, Height, MaxDepth, Samples,  \* the Raytracer's fields
  cameraValid,          \* whether the camera's configuration lets GetRay succeed
  seed,                 \* the seed of the random source
  rng,                  \* the state of the random source
  mainPC,               \* where the goroutine calling Render is
  spawned,              \* how many per-pixel goroutines the loops have started
  wg,                   \* the WaitGroup's counter
  units,                \* the per-pixel goroutines, by pixel <<x, y>>
  img,                  \* the RGBA buffer, by slot <<x, y>>
  writes,               \* every img.Set call made: who called it, on which slot
  run,                  \* 1 during the first Render, 2 during the second
  firstImg              \* the buffer the first Render returned

traceVars == <<stack, tStatus, tResult, tQueries, tDepth0>>
geomVars == <<gRay, gObjects, gHits, gClosest, gPC>>
paramVars == <<Width, Height, MaxDepth, Samples, cameraValid, seed>>
renderVars == <<paramVars, rng, mainPC, spawned, wg, units, img, writes, run, firstImg>>

\* ------------------------------------------------------------------------
\* package raytracer: traceRay
\* ------------------------------------------------------------------------

\* A terminal test that lets depth 0 through.
DepthExhaustedOffByOne(depth) == depth < 0

\* if depth <= 0 { return black }
DepthExhausted(depth) == depth <= 0

\* A recursive call that passes its own depth on.
NextDepthSame(depth) == depth

\* The depth handed to every recursive call.
NextDepth(depth) == depth - 1

\* The inside flag handed to the reflection call, to the call made on total
\* internal reflection, and to the call along the refracted ray.
ReflectionInside(inside) == inside
InternalReflectionInside(inside) == inside
RefractionInside(inside) == ~inside

\* r.Scene.FindClosestIntersection(ray)
Closest(ray) == FindClosestIntersection(SceneHits(scene, ray), loopVarPerIteration)

\* FindClosestIntersection calls object.Intersect(ray) on every object, and
\* Intersect reads ray.Origin: a nil ray panics as soon as there is an object.
NilRayPanics(ray) == ray = NilRay /\ Len(scene.Objects) > 0

\* traceRay as a function of its arguments: the colour it returns, whether it
\* panicked instead, and how many times it asked the scene for a nearest hit.
RECURSIVE traceRay(_, _, _)
traceRay(ray, depth, inside) ==
  IF DepthExhausted(depth) THEN [color |-> Black, panicked |-> FALSE, queries |-> 0]
  ELSE IF NilRayPanics(ray) THEN [color |-> Black, panicked |-> TRUE, queries |-> 1]
  ELSE
    LET found == Closest(ray)
        hit == found.hit
    IN IF hit = NoHit THEN [color |-> Black, panicked |-> FALSE, queries |-> 1]
       ELSE
         LET material == scene.Objects[found.object].Material
             local == ComputeColor(material)
             reflected ==
               IF material.Reflectivity > 0
               THEN traceRay(hit.Reflected, NextDepth(depth), ReflectionInside(inside))
               ELSE [color |-> Black, panicked |-> FALSE, queries |-> 0]
             afterReflection ==
               ColorAdd(local, ColorScale(reflected.color, material.Reflectivity))
             refraction == Refract(hit, material.RefractiveIndex)
             transmitted ==
               IF material.Transparency > 0 /\ ~reflected.panicked
               THEN traceRay(refraction.ray, NextDepth(depth),
                             IF refraction.totalInternalReflection
                             THEN InternalReflectionInside(inside)
                             ELSE RefractionInside(inside))
               ELSE [color |-> Black, panicked |-> FALSE, queries |-> 0]
         IN [color |-> ColorAdd(afterReflection,
                                ColorScale(transmitted.color, material.Transparency)),
             panicked |-> reflected.panicked \/ transmitted.panicked,
             queries |-> 1 + reflected.queries + transmitted.queries]

\* The same function one step at a time, as the call stack of one outermost call.
Frame(ray, depth, inside, kind) ==
  [ray |-> ray, depth |-> depth, inside |-> inside, kind |-> kind,
   pc |-> "entry", object |-> 0, hit |-> NoHit, hitColor |-> Black]

Top == stack[Len(stack)]
SetTop(f) == [stack EXCEPT ![Len(stack)] = f]
Running == tStatus = "running" /\ Len(stack) > 0
MaterialOf(f) == scene.Objects[f.object].Material

\* A bound on the call stack, above any depth the tracer is started with.
MaxStack == 8

\* depth <= 0: return black.
ReturnBlackAtDepth ==
  /\ Running /\ Top.pc = "entry"
  /\ DepthExhausted(Top.depth)
  /\ stack' = SetTop([Top EXCEPT !.pc = "return", !.hitColor = Black])
  /\ UNCHANGED <<tStatus, tResult, tQueries, tDepth0>>
  /\ UNCHANGED <<scene, loopVarPerIteration, geomVars, renderVars>>

\* The nearest-hit query dereferences a nil ray.
PanicOnNilRay ==
  /\ Running /\ Top.pc = "entry"
  /\ ~DepthExhausted(Top.depth)
  /\ NilRayPanics(Top.ray)
  /\ tStatus' = "panicked"
  /\ tQueries' = tQueries + 1
  /\ UNCHANGED <<stack, tResult, tDepth0>>
  /\ UNCHANGED <<scene, loopVarPerIteration, geomVars, renderVars>>

\* hit == nil: return black.
Miss ==
  /\ Running /\ Top.pc = "entry"
  /\ ~DepthExhausted(Top.depth)
  /\ ~NilRayPanics(Top.ray)
  /\ Closest(Top.ray).hit = NoHit
  /\ stack' = SetTop([Top EXCEPT !.pc = "return", !.hitColor = Black])
  /\ tQueries' = tQueries + 1
  /\ UNCHANGED <<tStatus, tResult, tDepth0>>
  /\ UNCHANGED <<scene, loopVarPerIteration, geomVars, renderVars>>

\* A hit: shade it locally.
Shade ==
  /\ Running /\ Top.pc = "entry"
  /\ ~DepthExhausted(Top.depth)
  /\ ~NilRayPanics(Top.ray)
  /\ LET found == Closest(Top.ray)
     IN /\ found.hit # NoHit
        /\ stack' = SetTop([Top EXCEPT !.pc = "reflect", !.hit = found.hit,
                                       !.object = found.object,
                                       !.hitColor = ComputeColor(scene.Objects[found.object].Material)])
  /\ tQueries' = tQueries + 1
  /\ UNCHANGED <<tStatus, tResult, tDepth0>>
  /\ UNCHANGED <<scene, loopVarPerIteration, geomVars, renderVars>>

\* Reflectivity > 0: recurse along the reflected ray.
CallReflection ==
  /\ Running /\ Top.pc = "reflect"
  /\ MaterialOf(Top).Reflectivity > 0
  /\ Len(stack) < MaxStack
  /\ stack' = Append(SetTop([Top EXCEPT !.pc = "afterReflect"]),
                     Frame(Top.hit.Reflected, NextDepth(Top.depth),
                           ReflectionInside(Top.inside), "reflection"))
  /\ UNCHANGED <<tStatus, tResult, tQueries, tDepth0>>
  /\ UNCHANGED <<scene, loopVarPerIteration, geomVars, renderVars>>

SkipReflection ==
  /\ Running /\ Top.pc = "reflect"
  /\ ~(MaterialOf(Top).Reflectivity > 0)
  /\ stack' = SetTop([Top EXCEPT !.pc = "transparent"])
  /\ UNCHANGED <<tStatus, tResult, tQueries, tDepth0>>
  /\ UNCHANGED <<scene, loopVarPerIteration, geomVars, renderVars>>

\* Transparency > 0, refraction succeeds: recurse along the refracted ray.
CallRefraction ==
  /\ Running /\ Top.pc = "transparent"
  /\ MaterialOf(Top).Transparency > 0
  /\ Len(stack) < MaxStack
  /\ LET refraction == Refract(Top.hit, MaterialOf(Top).RefractiveIndex)
     IN /\ ~refraction.totalInternalReflection
        /\ stack' = Append(SetTop([Top EXCEPT !.pc = "afterTransparent"]),
                           Frame(refraction.ray, NextDepth(Top.depth),
                                 RefractionInside(Top.inside), "refraction"))
  /\ UNCHANGED <<tStatus, tResult, tQueries, tDepth0>>
  /\ UNCHANGED <<scene, loopVarPerIteration, geomVars, renderVars>>

\* Transparency > 0, total internal reflection: recurse along what Refract returned.
CallInternalReflection ==
  /\ Running /\ Top.pc = "transparent"
  /\ MaterialOf(Top).Transparency > 0
  /\ Len(stack) < MaxStack
  /\ LET refraction == Refract(Top.hit, MaterialOf(Top).RefractiveIndex)
     IN /\ refraction.totalInternalReflection
        /\ stack' = Append(SetTop([Top EXCEPT !.pc = "afterTransparent"]),
                           Frame(refraction.ray, NextDepth(Top.depth),
                                 InternalReflectionInside(Top.inside),
                                 "internalReflection"))
  /\ UNCHANGED <<tStatus, tResult, tQueries, tDepth0>>
  /\ UNCHANGED <<scene, loopVarPerIteration, geomVars, renderVars>>

SkipTransparency ==
  /\ Running /\ Top.pc = "transparent"
  /\ ~(MaterialOf(Top).Transparency > 0)
  /\ stack' = SetTop([Top EXCEPT !.pc = "return"])
  /\ UNCHANGED <<tStatus, tResult, tQueries, tDepth0>>
  /\ UNCHANGED <<scene, loopVarPerIteration, geomVars, renderVars>>

\* A recursive call returns: the caller adds the scaled colour and goes on.
ReturnToCaller ==
  /\ Running /\ Top.pc = "return"
  /\ Len(stack) > 1
  /\ LET caller == stack[Len(stack) - 1]
         scaled == IF caller.pc = "afterReflect"
                   THEN ColorScale(Top.hitColor, MaterialOf(caller).Reflectivity)
                   ELSE ColorScale(Top.hitColor, MaterialOf(caller).Transparency)
         resumed == [caller EXCEPT
                       !.hitColor = ColorAdd(caller.hitColor, scaled),
                       !.pc = IF caller.pc = "afterReflect" THEN "transparent" ELSE "return"]
     IN stack' = [SubSeq(stack, 1, Len(stack) - 1) EXCEPT ![Len(stack) - 1] = resumed]
  /\ UNCHANGED <<tStatus, tResult, tQueries, tDepth0>>
  /\ UNCHANGED <<scene, loopVarPerIteration, geomVars, renderVars>>

\* The outermost call returns.
ReturnResult ==
  /\ Running /\ Top.pc = "return"
  /\ Len(stack) = 1
  /\ stack' = <<>>
  /\ tStatus' = "returned"
  /\ tResult' = Top.hitColor
  /\ UNCHANGED <<tQueries, tDepth0>>
  /\ UNCHANGED <<scene, loopVarPerIteration, geomVars, renderVars>>

MaxTraceDepth == 3

TraceIdle ==
  /\ stack = <<>> /\ tStatus = "idle" /\ tResult = Black /\ tQueries = 0 /\ tDepth0 = 0

GeomIdle ==
  /\ gRay = 0 /\ gObjects = <<>> /\ gHits = <<>> /\ gClosest = 0 /\ gPC = "idle"

RenderIdle ==
  /\ Width = 0 /\ Height = 0 /\ MaxDepth = 0 /\ Samples = 0
  /\ cameraValid = TRUE /\ seed = 0 /\ rng = 0
  /\ mainPC = "idle" /\ spawned = 0 /\ wg = 0
  /\ units = <<>> /\ img = <<>> /\ writes = {} /\ run = 0 /\ firstImg = <<>>

TraceInit ==
  /\ scene \in Scenes
  /\ loopVarPerIteration \in BOOLEAN
  /\ tDepth0 \in -1..MaxTraceDepth
  /\ \E ray \in Rays, inside \in BOOLEAN :
       stack = <<Frame(ray, tDepth0, inside, "primary")>>
  /\ tStatus = "running"
  /\ tResult = Black
  /\ tQueries = 0
  /\ GeomIdle
  /\ RenderIdle

TraceNext ==
  \/ ReturnBlackAtDepth
  \/ PanicOnNilRay
  \/ Miss
  \/ Shade
  \/ CallReflection
  \/ SkipReflection
  \/ CallRefraction
  \/ CallInternalReflection
  \/ SkipTransparency
  \/ ReturnToCaller
  \/ ReturnResult

vars == <<scene, loopVarPerIteration, traceVars, geomVars, renderVars>>

TraceSpec == TraceInit /\ [][TraceNext]_vars

\* ------------------------------------------------------------------------
\* package utility: the random source
\* ------------------------------------------------------------------------

\* rand.Float64 draws from one process-wide source, under the source's lock:
\* a draw returns the next value of the stream the seed fixes and advances
\* the source. The stream is that of a small congruential generator, its
\* values k/RngModulus in [0, 1).
RngModulus == 4
Seeds == {0}
RngNext(state) == (5 * state + 3) % RngModulus
Random(state) == Rat(state, RngModulus)

\* ------------------------------------------------------------------------
\* The camera (geometry.Camera is not part of the sources at hand)
\* ------------------------------------------------------------------------

\* The half of the viewport axis a finite coordinate falls in: 0 or 1 inside
\* [0, 1), 2 from 1 on, 0 below 0.
Cell(c) ==
  IF c.n < 0 THEN 0 ELSE Min(2, (2 * c.n) \div c.d)

\* Camera.GetRay(u, v): the ray through screen position (u, v). A coordinate
\* that is not finite gives a ray whose direction is not finite either, which
\* no shape is hit by: the ray that leaves the scene.
GetRay(u, v) ==
  IF ~IsFinite(u) \/ ~IsFinite(v) THEN NumRays
  ELSE ((Cell(u) + 2 * Cell(v)) % NumRays) + 1

\* ------------------------------------------------------------------------
\* package raytracer: Render
\* ------------------------------------------------------------------------

Pixels == (0..(Width - 1)) \X (0..(Height - 1))

\* A WaitGroup armed for one unit too few.
WgAddOneShort == Width * Height - 1

\* pixels := r.Width * r.Height; wg.Add(pixels)
WgAdd == Width * Height

\* img.Set with its coordinates swapped.
SlotOfSwapped(x, y) == <<y, x>>

\* The slot img.Set(x, y, rgba) writes.
SlotOf(x, y) == <<x, y>>

\* (float64(x) + utility.Random()) / float64(r.Width-1), and the same for y.
ScreenCoordinate(k, random, size) == Rat(k * random.d + random.n, random.d * (size - 1))

\* The inside flag of a primary ray. Render's call names no flag; a primary
\* ray starts outside every shape.
PrimaryInside == FALSE

\* color, u and v are the goroutine's locals: they are reset when it is done
\* with them. s counts the loop's completed iterations (the samples traced),
\* sets the img.Set calls and done the wg.Done() calls.
NewUnit ==
  [pc |-> "notStarted", s |-> 0, color |-> Black, u |-> FromInt(0), v |-> FromInt(0),
   errored |-> FALSE, sets |-> 0, done |-> 0]

Alive == mainPC \in {"begin", "spawn", "wait", "returned"}

\* The order the loops start the units in.
SpawnIndex(p) == p[2] * Width + p[1]

\* The first Render is followed along every schedule of its units. The second
\* is followed along one schedule only: the units run one after another, in
\* the order they were started, once all are started.
Scheduled(p) ==
  \/ run = 1
  \/ /\ mainPC = "wait"
     /\ \A q \in Pixels : SpawnIndex(q) < SpawnIndex(p) => units[q].pc = "finished"

\* img := image.NewRGBA(...); wg.Add(pixels)
Begin ==
  /\ mainPC = "begin"
  /\ img' = [p \in Pixels |-> <<0, 0, 0, 0>>]
  /\ wg' = wg + WgAdd
  /\ mainPC' = "spawn"
  /\ UNCHANGED <<paramVars, rng, spawned, units, writes, run, firstImg>>
  /\ UNCHANGED <<scene, loopVarPerIteration, traceVars, geomVars>>

\* One turn of the loops over y and x: go func(x, y) {...}(x, y)
Spawn ==
  /\ mainPC = "spawn"
  /\ spawned < Width * Height
  /\ LET p == <<spawned % Width, spawned \div Width>>
     IN units' = [units EXCEPT ![p].pc = "sampleU"]
  /\ spawned' = spawned + 1
  /\ UNCHANGED <<paramVars, rng, mainPC, wg, img, writes, run, firstImg>>
  /\ UNCHANGED <<scene, loopVarPerIteration, traceVars, geomVars>>

\* The loops are over: on to wg.Wait().
EndSpawn ==
  /\ mainPC = "spawn"
  /\ spawned = Width * Height
  /\ mainPC' = "wait"
  /\ UNCHANGED <<paramVars, rng, spawned, wg, units, img, writes, run, firstImg>>
  /\ UNCHANGED <<scene, loopVarPerIteration, traceVars, geomVars>>

\* wg.Wait() returns once the counter is zero; Render returns img.
WaitReturn ==
  /\ mainPC = "wait"
  /\ wg = 0
  /\ mainPC' = "returned"
  /\ UNCHANGED <<paramVars, rng, spawned, wg, units, img, writes, run, firstImg>>
  /\ UNCHANGED <<scene, loopVarPerIteration, traceVars, geomVars>>

\* u := (float64(x) + utility.Random()) / float64(r.Width-1)
DrawU(p) ==
  /\ Alive
  /\ Scheduled(p)
  /\ units[p].pc = "sampleU"
  /\ units' = [units EXCEPT ![p].u = ScreenCoordinate(p[1], Random(rng), Width),
                            ![p].pc = "sampleV"]
  /\ rng' = RngNext(rng)
  /\ UNCHANGED <<paramVars, mainPC, spawned, wg, img, writes, run, firstImg>>
  /\ UNCHANGED <<scene, loopVarPerIteration, traceVars, geomVars>>

\* v := ...; GetRay fails: return (the deferred wg.Done() is still to run).
DrawVGetRayFails(p) ==
  /\ Alive
  /\ Scheduled(p)
  /\ units[p].pc = "sampleV"
  /\ ~cameraValid
  /\ units' = [units EXCEPT ![p].v = ScreenCoordinate(p[2], Random(rng), Height),
                            ![p].errored = TRUE,
                            ![p].pc = "deferred"]
  /\ rng' = RngNext(rng)
  /\ UNCHANGED <<paramVars, mainPC, spawned, wg, img, writes, run, firstImg>>
  /\ UNCHANGED <<scene, loopVarPerIteration, traceVars, geomVars>>

\* v := ...; GetRay succeeds; sampleColor := traceRay(ray, MaxDepth);
\* color = color.Add(sampleColor); s++
DrawVTrace(p) ==
  /\ Alive
  /\ Scheduled(p)
  /\ units[p].pc = "sampleV"
  /\ cameraValid
  /\ LET v == ScreenCoordinate(p[2], Random(rng), Height)
         sample == traceRay(GetRay(units[p].u, v), MaxDepth, PrimaryInside)
     IN /\ ~sample.panicked
        /\ units' = [units EXCEPT ![p].v = v,
                                  ![p].color = ColorAdd(units[p].color, sample.color),
                                  ![p].s = units[p].s + 1,
                                  ![p].pc = IF units[p].s + 1 < Samples
                                            THEN "sampleU" ELSE "write"]
  /\ rng' = RngNext(rng)
  /\ UNCHANGED <<paramVars, mainPC, spawned, wg, img, writes, run, firstImg>>
  /\ UNCHANGED <<scene, loopVarPerIteration, traceVars, geomVars>>

\* The same, but traceRay panics: the process dies.
DrawVTracePanics(p) ==
  /\ Alive
  /\ Scheduled(p)
  /\ units[p].pc = "sampleV"
  /\ cameraValid
  /\ LET v == ScreenCoordinate(p[2], Random(rng), Height)
         sample == traceRay(GetRay(units[p].u, v), MaxDepth, PrimaryInside)
     IN /\ sample.panicked
        /\ units' = [units EXCEPT ![p].v = v, ![p].pc = "panicked"]
  /\ rng' = RngNext(rng)
  /\ mainPC' = "crashed"
  /\ UNCHANGED <<paramVars, spawned, wg, img, writes, run, firstImg>>
  /\ UNCHANGED <<scene, loopVarPerIteration, traceVars, geomVars>>

\* color = color.Scale(1 / float64(r.Samples)); img.Set(x, y, color.ToRGBA())
WritePixel(p) ==
  /\ Alive
  /\ Scheduled(p)
  /\ units[p].pc = "write"
  /\ LET slot == SlotOf(p[1], p[2])
         rgba == ToRGBA(ColorScale(units[p].color, One \div Samples))
     IN /\ img' = IF slot \in DOMAIN img THEN [img EXCEPT ![slot] = rgba] ELSE img
        /\ writes' = writes \cup {[by |-> p, slot |-> slot]}
  /\ units' = [units EXCEPT ![p].sets = units[p].sets + 1, ![p].pc = "deferred",
                            ![p].color = Black, ![p].u = FromInt(0), ![p].v = FromInt(0)]
  /\ UNCHANGED <<paramVars, rng, mainPC, spawned, wg, run, firstImg>>
  /\ UNCHANGED <<scene, loopVarPerIteration, traceVars, geomVars>>

\* defer wg.Done()
Done(p) ==
  /\ Alive
  /\ Scheduled(p)
  /\ units[p].pc = "deferred"
  /\ wg' = wg - 1
  /\ units' = [units EXCEPT ![p].done = units[p].done + 1, ![p].pc = "finished",
                            ![p].color = Black, ![p].u = FromInt(0), ![p].v = FromInt(0)]
  /\ UNCHANGED <<paramVars, rng, mainPC, spawned, img, writes, run, firstImg>>
  /\ UNCHANGED <<scene, loopVarPerIteration, traceVars, geomVars>>

\* The same scene is rendered a second time, the random source seeded as before.
RenderAgain ==
  /\ mainPC = "returned"
  /\ run = 1
  /\ firstImg' = img
  /\ run' = 2
  /\ rng' = seed
  /\ mainPC' = "begin"
  /\ spawned' = 0
  /\ units' = [p \in Pixels |-> NewUnit]
  /\ writes' = {}
  /\ UNCHANGED <<paramVars, wg, img>>
  /\ UNCHANGED <<scene, loopVarPerIteration, traceVars, geomVars>>

\* The scene rendered.
RenderScenes == {GlassScene}

\* Bounds on Width and Height, on Width * Height, on Samples and on MaxDepth.
MaxSide == 2
MaxPixels == 4
MaxSamples == 2
MaxRenderDepth == 2
\* A bound on Width * Height * Samples, the samples one Render takes.
MaxWork == 4

Init ==
  /\ scene \in RenderScenes
  /\ loopVarPerIteration \in BOOLEAN
  /\ Width \in 1..MaxSide
  /\ Height \in 1..MaxSide
  /\ Width * Height <= MaxPixels
  /\ Samples \in 1..MaxSamples
  /\ Width * Height * Samples <= MaxWork
  /\ MaxDepth \in {0, MaxRenderDepth}
  /\ cameraValid \in BOOLEAN
  /\ seed \in Seeds
  /\ rng = seed
  /\ mainPC = "begin"
  /\ spawned = 0
  /\ wg = 0
  /\ units = [p \in Pixels |-> NewUnit]
  /\ img = <<>>
  /\ writes = {}
  /\ run = 1
  /\ firstImg = <<>>
  /\ TraceIdle
  /\ GeomIdle

Next ==
  \/ Begin
  \/ Spawn
  \/ EndSpawn
  \/ WaitReturn
  \/ \E p \in Pixels : DrawU(p)
  \/ \E p \in Pixels : DrawVGetRayFails(p)
  \/ \E p \in Pixels : DrawVTrace(p)
  \/ \E p \in Pixels : DrawVTracePanics(p)
  \/ \E p \in Pixels : WritePixel(p)
  \/ \E p \in Pixels : Done(p)
  \/ RenderAgain

Spec == Init /\ [][Next]_vars

\* ------------------------------------------------------------------------
\* Intersect and FindClosestIntersection on concrete shapes
\* ------------------------------------------------------------------------

Shapes ==
  { [kind |-> "Sphere", Center |-> <<0, 0, 5>>, Radius |-> 1],
    [kind |-> "Sphere", Center |-> <<0, 0, 0>>, Radius |-> 2],
    [kind |-> "Plane", Point |-> <<0, 0, 3>>, Normal |-> <<0, 0, -1>>],
    [kind |-> "Plane", Point |-> <<0, 0, 0>>, Normal |-> <<0, 1, 0>>],
    [kind |-> "Triangle", V0 |-> <<-2, -2, 4>>, V1 |-> <<2, -2, 4>>, V2 |-> <<0, 2, 4>>],
    [kind |-> "Cylinder", Center |-> <<0, 0, 5>>, Radius |-> 1],
    [kind |-> "Cube", Center |-> <<0, 0, 5>>, Length |-> 2],
    [kind |-> "Cube", Center |-> <<0, 0, 0>>, Length |-> 2] }

GeomRays ==
  { [Origin |-> o, Direction |-> d] :
      o \in {<<0, 0, 0>>, <<0, 0, -5>>},
      d \in {<<0, 0, 1>>, <<0, 0, -1>>, <<0, 1, 0>>, <<1, 1, 1>>} }

MaxObjects == 2

\* shape.Intersect(ray), for one shape of the scene.
CallIntersect(i) ==
  /\ gPC = "start"
  /\ gHits' = <<Intersect(gObjects[i], gRay)>>
  /\ gPC' = "intersected"
  /\ UNCHANGED <<gRay, gObjects, gClosest>>
  /\ UNCHANGED <<scene, loopVarPerIteration, traceVars, renderVars>>

\* s.FindClosestIntersection(ray): every object is tested, the nearest hit kept.
CallFindClosestIntersection ==
  /\ gPC = "start"
  /\ LET hits == [i \in 1..Len(gObjects) |-> Intersect(gObjects[i], gRay)]
     IN /\ gHits' = hits
        /\ gClosest' = FindClosestIntersection(hits, loopVarPerIteration)
  /\ gPC' = "found"
  /\ UNCHANGED <<gRay, gObjects>>
  /\ UNCHANGED <<scene, loopVarPerIteration, traceVars, renderVars>>

GeomInit ==
  /\ gRay \in GeomRays
  /\ \E n \in 0..MaxObjects : gObjects \in [1..n -> Shapes]
  /\ \A i, j \in DOMAIN gObjects : i # j => gObjects[i] # gObjects[j]
  /\ loopVarPerIteration \in BOOLEAN
  /\ gHits = <<>>
  /\ gClosest = 0
  /\ gPC = "start"
  /\ scene = EmptyScene
  /\ TraceIdle
  /\ RenderIdle

GeomNext ==
  \/ \E i \in 1..Len(gObjects) : CallIntersect(i)
  \/ CallFindClosestIntersection

GeomSpec == GeomInit /\ [][GeomNext]_vars

\* ------------------------------------------------------------------------
\* Properties of Render (specification Spec)
\* ------------------------------------------------------------------------

\* C1: when Render returns, every one of the Width*Height per-pixel units has
\* finished (none is running, none is still to start), and a unit signals
\* completion exactly once, on its early-return path too: a finished unit has
\* called wg.Done() once, an unfinished one not at all.
RenderJoinsAllUnits ==
  /\ mainPC = "returned" => \A p \in Pixels : units[p].pc = "finished"
  /\ \A p \in Pixels : units[p].done = IF units[p].pc = "finished" THEN 1 ELSE 0

\* Render has returned from an image of several pixels whose units all left
\* by the early return.
RenderJoinsAllUnitsWitness ==
  /\ mainPC = "returned"
  /\ Cardinality(Pixels) >= 2
  /\ \A p \in Pixels : units[p].errored

\* C2: the unit of pixel (x, y) calls img.Set at most once, and on slot (x, y)
\* only: every write made lands inside the image on the writer's own slot, so
\* no two units write the same slot.
UnitsWriteOwnSlotOnce ==
  /\ \A p \in Pixels : units[p].sets <= 1
  /\ \A w \in writes : w.slot = w.by /\ w.slot \in Pixels
  /\ \A w1, w2 \in writes : w1.slot = w2.slot => w1.by = w2.by

\* Two units have each written a slot.
UnitsWriteOwnSlotOnceWitness ==
  /\ run = 1
  /\ Cardinality(writes) >= 2

\* C3: a unit whose GetRay failed for a sample skips only that sample: it still
\* goes through all its Samples iterations and writes the averaged colour to
\* its slot.
GetRayErrorSkipsOneSample ==
  \A p \in Pixels :
    (units[p].errored /\ units[p].pc = "finished") =>
      (units[p].s = Samples /\ units[p].sets = 1)

\* C4: traceRay with depth <= 0 returns black for every ray, either inside
\* flag and every scene, without a nearest-hit query; and when Render returns
\* with MaxDepth = 0, every pixel of the image is black.
DepthZeroIsBlack ==
  /\ \A ray \in Rays \cup {NilRay}, depth \in {-1, 0}, inside \in BOOLEAN :
       traceRay(ray, depth, inside) = [color |-> Black, panicked |-> FALSE, queries |-> 0]
  /\ (mainPC = "returned" /\ MaxDepth <= 0) =>
       \A p \in Pixels : img[p][1] = 0 /\ img[p][2] = 0 /\ img[p][3] = 0

\* Render has returned a 2 x 2 image, each pixel written by its unit after
\* tracing at depth 0 in a scene that has shapes.
DepthZeroIsBlackWitness ==
  /\ mainPC = "returned"
  /\ MaxDepth = 0
  /\ Len(scene.Objects) > 0
  /\ Width = 2 /\ Height = 2
  /\ \A p \in Pixels : units[p].s = Samples /\ img[p] = <<0, 0, 0, 255>>

\* C6: the second Render of the same scene, from the same seed, returns a
\* buffer identical to the first one's.
SecondRenderIdentical ==
  (run = 2 /\ mainPC = "returned") => img = firstImg

InUnitInterval(c) == IsFinite(c) /\ RGe(c, FromInt(0)) /\ RGe(FromInt(1), c)

\* C10: the screen coordinates a unit computes lie in [0, 1] x [0, 1] and are
\* finite (no division by zero produced them).
ScreenCoordinatesInUnitSquare ==
  \A p \in Pixels : InUnitInterval(units[p].u) /\ InUnitInterval(units[p].v)

\* ------------------------------------------------------------------------
\* Properties of traceRay (specification TraceSpec)
\* ------------------------------------------------------------------------

RECURSIVE Work(_)
\* The most steps a call of the given depth takes, its recursive calls included.
Work(depth) == IF depth <= 0 THEN 2 ELSE 4 + 2 * Work(depth - 1)

\* The steps a frame has left, those of the calls it has yet to make included.
Remaining(f) ==
  CASE f.pc = "entry" -> Work(f.depth)
    [] f.pc = "reflect" -> Work(f.depth) - 1
    [] f.pc = "afterReflect" -> 2 + Work(f.depth - 1)
    [] f.pc = "transparent" -> 2 + Work(f.depth - 1)
    [] f.pc = "afterTransparent" -> 1
    [] f.pc = "return" -> 1

RECURSIVE SumRemaining(_, _)
SumRemaining(frames, i) ==
  IF i > Len(frames) THEN 0 ELSE Remaining(frames[i]) + SumRemaining(frames, i + 1)

TraceMeasure == IF tStatus = "running" THEN SumRemaining(stack, 1) ELSE 0

TraceNesting ==
  /\ \A i \in 2..Len(stack) : stack[i].depth = stack[i - 1].depth - 1
  /\ Len(stack) > 0 => stack[1].depth = tDepth0
  /\ Len(stack) <= (IF tDepth0 > 0 THEN tDepth0 ELSE 0) + 1
  /\ tStatus = "running" => ENABLED TraceNext

\* C5: traceRay terminates for every scene and initial depth d: each recursive
\* call has depth one less than its caller's, the calls nest at most d deep
\* (d + 1 frames with the outermost), a running call can always take a step,
\* and every step lowers a natural-number measure of the work left.
TraceRayTerminates ==
  /\ []TraceNesting
  /\ [][TraceMeasure' < TraceMeasure]_vars

\* Two mirrors facing each other: the recursion has reached its deepest level.
TraceRayTerminatesWitness ==
  /\ scene = MirrorScene
  /\ tDepth0 >= 2
  /\ Len(stack) = tDepth0 + 1
  /\ \A i \in 2..Len(stack) : stack[i].kind = "reflection"

\* C9: the reflection call gets the caller's inside flag, the refraction call
\* the negated flag, and on total internal reflection the call gets the
\* caller's flag and a ray that is not nil.
InsideFlagEvolution ==
  \A i \in 2..Len(stack) :
    /\ stack[i].kind = "reflection" => stack[i].inside = stack[i - 1].inside
    /\ stack[i].kind = "refraction" => stack[i].inside = ~stack[i - 1].inside
    /\ stack[i].kind = "internalReflection" =>
         stack[i].inside = stack[i - 1].inside /\ stack[i].ray # NilRay

\* ------------------------------------------------------------------------
\* Properties of the shapes and the scene query (specification GeomSpec)
\* ------------------------------------------------------------------------

Hitters == {i \in 1..Len(gHits) : gHits[i] # NoHit}

\* C7: FindClosestIntersection returns no hit and no shape exactly when no
\* shape is hit; otherwise the hit of minimum t among the shapes hit, with the
\* shape that produced it, the first in slice order among equals.
ClosestIsNearestWithItsShape ==
  gPC = "found" =>
    IF Hitters = {} THEN gClosest.hit = NoHit /\ gClosest.object = 0
    ELSE /\ gClosest.object \in Hitters
         /\ gClosest.hit = gHits[gClosest.object]
         /\ \A j \in Hitters : ~RLt(gHits[j].T, gClosest.hit.T)
         /\ \A j \in Hitters : j < gClosest.object => RLt(gClosest.hit.T, gHits[j].T)

\* C8: a Hit returned by a shape's Intersect has t greater than the epsilon.
HitsAreBeyondEpsilon ==
  gPC = "intersected" => (gHits[1] = NoHit \/ RGt(gHits[1].T, Epsilon))

====
